---- MODULE Spec2Model ----
(***************************************************************************)
(* Pixel Update Receiver (src/src/main.cpp): the frame protocol decoder    *)
(* and update compositor driven by loop() / handleClient().                *)
(*                                                                         *)
(* The transport is a byte stream: the peer puts whole frames on the wire, *)
(* the network delivers them to the socket in arbitrary pieces, and the    *)
(* receiver consumes them through readExactly.  Bytes are 0..255 and every *)
(* multi-byte field is encoded and decoded little-endian as in the code.   *)
(***************************************************************************)
EXTENDS Integers, Sequences, FiniteSets, TLC

\* ------------------------------------------------------------------ bounds
MaxConns == 2          \* connections the peers open in one behaviour
MaxFrames == 2         \* frames the peers put on the wire in one behaviour
SmallWidth == 3        \* width of the small surface
SmallHeight == 2       \* height of the small surface
SegmentSize == 5       \* the network hands over a segment of this size, or all it has
RxBacklog == 11        \* unread bytes in the socket beyond which the peer holds its next frame
TinyWidth == 2         \* width of the surface of the longer sessions
TinyHeight == 1        \* height of the surface of the longer sessions

\* ------------------------------------------------------- program constants
LilkaWidth == 280
LilkaHeight == 240
MAGIC == <<80, 88, 85, 80>>         \* 'P' 'X' 'U' 'P'
MAGIC_RUN == <<80, 88, 85, 82>>     \* 'P' 'X' 'U' 'R'
PROTO_VERSION == 2
RUN_VERSION == 1
HEADER_SIZE == 11
RUN_HEADER_SIZE == 11
MinHeaderAvailable == 11
PixelEntrySize == 6
RunEntrySize == 8
Black == 0
White == 65535         \* 0xFFFF
Green == 2016          \* 0x07E0
Uninit == -1           \* a field of malloc'ed memory nobody has written yet

\* ------------------------------------------------------------ wire format
Min(a, b) == IF a <= b THEN a ELSE b

LE16(v) == <<v % 256, (v \div 256) % 256>>

LE32(v) == <<v % 256, (v \div 256) % 256, (v \div 65536) % 256, (v \div 16777216) % 256>>

Header(magic, version, id, cnt) == magic \o <<version>> \o LE32(id) \o LE16(cnt)

\* one body entry on the wire: its 16-bit fields in wire order
RECURSIVE EncodeFields(_)
EncodeFields(fields) ==
  IF fields = <<>> THEN <<>> ELSE LE16(Head(fields)) \o EncodeFields(Tail(fields))

RECURSIVE EncodeBody(_)
EncodeBody(entries) ==
  IF entries = <<>> THEN <<>> ELSE EncodeFields(Head(entries)) \o EncodeBody(Tail(entries))

Frame(magic, version, id, cnt, entries) == Header(magic, version, id, cnt) \o EncodeBody(entries)

\* ------------------------------------------------- what the peers may send
FrameIdA == 7
FrameIdB == 16909060   \* 0x01020304: every byte of the little-endian id differs
BigCount == 50000      \* the entry count of scenario E

\* pixel entries are <<x, y, color>>, run entries <<y, x0, length, color>>
PixelBodies(W, H) ==
  { << <<0, 0, White>> >>,
    \* the same pixel twice
    << <<0, 0, White>>, <<0, 0, Green>> >>,
    \* x out of bounds, y out of bounds, then the last pixel of the surface
    << <<W, 0, White>>, <<0, H, Green>>, <<W - 1, H - 1, Green>> >> }

RunBodies(W, H) ==
  { \* a whole row
    << <<0, 0, W, Green>> >>,
    \* a run that starts inside and ends one past the width, then a good one
    << <<0, 1, W, White>>, <<H - 1, 1, 1, Green>> >>,
    \* two runs over the same pixel
    << <<0, 0, 2, White>>, <<0, 1, 1, Green>> >>,
    \* a single run from the last column, one pixel too long
    << <<0, W - 1, 2, Green>> >>,
    \* empty run, row out of bounds, start out of bounds, a length that would
    \* wrap a 16-bit sum, then a good one
    << <<0, 0, 0, White>>, <<H, 0, 1, Green>>, <<0, W, 1, Green>>,
       <<0, 1, 65535, White>>, <<0, 0, 1, White>> >> }

\* a count above width * height
OverCount(W, H) == W * H + 1

SmallFrames(W, H) ==
       { Frame(MAGIC, PROTO_VERSION, FrameIdA, Len(b), b) : b \in PixelBodies(W, H) }
  \cup { Frame(MAGIC_RUN, RUN_VERSION, FrameIdB, Len(b), b) : b \in RunBodies(W, H) }
  \cup { Frame(MAGIC, PROTO_VERSION, FrameIdB, 0, <<>>),
         Frame(MAGIC_RUN, RUN_VERSION, FrameIdA, 0, <<>>),
         \* declared count larger than the body that follows
         Frame(MAGIC, PROTO_VERSION, FrameIdA, 2, << <<0, 0, Green>> >>),
         Frame(MAGIC_RUN, RUN_VERSION, FrameIdA, 2, << <<0, 0, 1, White>> >>),
         \* count above width * height
         Frame(MAGIC, PROTO_VERSION, FrameIdA, OverCount(W, H), << <<0, 0, Green>> >>),
         Frame(MAGIC_RUN, RUN_VERSION, FrameIdB, OverCount(W, H), << <<0, 0, 1, Green>> >>),
         \* wrong version for the tag
         Frame(MAGIC, RUN_VERSION, FrameIdA, 1, << <<0, 0, Green>> >>),
         Frame(MAGIC_RUN, PROTO_VERSION, FrameIdA, 1, << <<0, 0, 1, Green>> >>),
         \* unknown tags, followed by an otherwise valid frame or by nothing useful
         Frame(<<88, 88, 88, 88>>, PROTO_VERSION, FrameIdA, 1, << <<0, 0, Green>> >>),
         Frame(<<80, 88, 85, 88>>, RUN_VERSION, FrameIdB, 0, <<>>) }

\* the scenarios A to E of the specification, for the 280x240 panel
ScenarioFrames ==
  { Frame(MAGIC, PROTO_VERSION, FrameIdA, 1, << <<0, 0, White>> >>),
    Frame(MAGIC_RUN, RUN_VERSION, FrameIdB, 1, << <<10, 5, 20, Green>> >>),
    Frame(MAGIC_RUN, RUN_VERSION, FrameIdB, 1, << <<10, 270, 20, Green>> >>),
    Frame(<<88, 88, 88, 88>>, PROTO_VERSION, FrameIdA, 1, << <<0, 0, Green>> >>),
    Frame(MAGIC, PROTO_VERSION, FrameIdA, BigCount, << <<0, 0, Green>> >>) }

\* the few frames of the longer sessions on the tiny surface: one pixel, one run,
\* and a frame that fills the surface
LongFrames(W, H) ==
  { Frame(MAGIC, PROTO_VERSION, FrameIdA, 1, << <<0, 0, White>> >>),
    Frame(MAGIC_RUN, RUN_VERSION, FrameIdB, 1, << <<0, 0, W, Green>> >>),
    Frame(MAGIC, PROTO_VERSION, FrameIdB, W * H,
          [k \in 1..(W * H) |-> <<(k - 1) % W, (k - 1) \div W, Green>>]) }

SenderFrames(W, H) ==
  IF W = LilkaWidth /\ H = LilkaHeight THEN ScenarioFrames
  ELSE IF W = TinyWidth /\ H = TinyHeight THEN LongFrames(W, H)
  ELSE SmallFrames(W, H)

\* how many frames the peers send in one behaviour: one more on the tiny surface
FrameBudget(W, H) == IF W = TinyWidth /\ H = TinyHeight THEN MaxFrames + 1 ELSE MaxFrames

\* ------------------------------------------------------------------ state
VARIABLES
  width, height,     \* lilka::display.width() / height()
  surface,           \* pixels written since the last fillScreen: <<x, y>> -> color
  drawn,             \* display calls made since loop() last tested the client
  pending,           \* a peer is waiting in the server's accept queue
  attached,          \* `client` holds a socket obtained from server.available()
  connected,         \* client.connected()
  wire,              \* bytes the peer has sent that have not reached the socket
  rx,                \* bytes buffered in the socket, unread (client.available())
  frameCount, updatesApplied, lastFrameId,
  updateBuffer,      \* [null, mem]: the pointer and the entries written behind it
  bufferCapacity,
  pc,                \* position of the single task inside loop()/handleClient()
  rd,                \* readExactly: the bytes copied to dst so far (got = Len(rd))
  isRun, frameId, count, i,   \* locals of handleClient
  taken,             \* the bytes the current handleClient call has consumed
  ret,               \* value returned by the last handleClient call
  err,               \* why handleClient last dropped a client ("None": it never did)
  conns, sent        \* how many connections / frames the peers have produced

vars == <<width, height, surface, drawn, pending, attached, connected, wire, rx,
          frameCount, updatesApplied, lastFrameId, updateBuffer, bufferCapacity,
          pc, rd, isRun, frameId, count, i, taken, ret, err, conns, sent>>

displayVars == <<surface, drawn>>
statVars == <<frameCount, updatesApplied, lastFrameId>>
bufVars == <<updateBuffer, bufferCapacity>>
localVars == <<isRun, frameId, count, i>>
peerVars == <<pending, conns, sent>>
dimVars == <<width, height>>

Blank == [p \in {} |-> Black]   \* the surface right after fillScreen(Black)

GetPixel(s, x, y) == IF <<x, y>> \in DOMAIN s THEN s[<<x, y>>] ELSE Black

InitCommon ==
  /\ surface = Blank
  /\ drawn = << <<"showWaitingScreen">> >>
  /\ pending = FALSE
  /\ attached = FALSE
  /\ connected = FALSE
  /\ wire = <<>>
  /\ rx = <<>>
  /\ frameCount = 0
  /\ updatesApplied = 0
  /\ lastFrameId = 0
  /\ updateBuffer = [null |-> TRUE, mem |-> <<>>]
  /\ bufferCapacity = 0
  /\ pc = "loop"
  /\ rd = <<>>
  /\ isRun = FALSE
  /\ frameId = 0
  /\ count = 0
  /\ i = 0
  /\ taken = <<>>
  /\ ret = FALSE
  /\ err = "None"
  /\ conns = 0
  /\ sent = 0

Init == width = SmallWidth /\ height = SmallHeight /\ InitCommon

InitLilka == width = LilkaWidth /\ height = LilkaHeight /\ InitCommon

InitLong == width = TinyWidth /\ height = TinyHeight /\ InitCommon

\* ------------------------------------------------------------ environment
\* a peer connects to port 8090 and waits to be accepted
PeerConnect ==
  /\ ~pending
  /\ conns < MaxConns
  /\ pending' = TRUE
  /\ conns' = conns + 1
  /\ UNCHANGED <<dimVars, displayVars, attached, connected, wire, rx, statVars, bufVars,
                 pc, rd, localVars, taken, ret, err, sent>>

\* the connected peer writes one frame to its socket
PeerSend ==
  /\ attached /\ connected
  /\ wire = <<>>
  /\ Len(rx) <= RxBacklog
  /\ sent < FrameBudget(width, height)
  /\ \E f \in SenderFrames(width, height) : wire' = f
  /\ sent' = sent + 1
  /\ UNCHANGED <<dimVars, displayVars, pending, attached, connected, rx, statVars, bufVars,
                 pc, rd, localVars, taken, ret, err, conns>>

\* the network delivers the next k bytes to the receiving socket
Deliver ==
  /\ attached /\ connected
  /\ wire # <<>>
  /\ \E k \in {Min(SegmentSize, Len(wire)), Len(wire)} :
       /\ rx' = rx \o SubSeq(wire, 1, k)
       /\ wire' = SubSeq(wire, k + 1, Len(wire))
  /\ UNCHANGED <<dimVars, displayVars, peerVars, attached, connected, statVars, bufVars,
                 pc, rd, localVars, taken, ret, err>>

\* the peer closes or the link drops: client.connected() turns false
PeerClose ==
  /\ attached /\ connected
  /\ connected' = FALSE
  /\ wire' = <<>>
  /\ rx' = <<>>
  /\ UNCHANGED <<dimVars, displayVars, peerVars, attached, statVars, bufVars,
                 pc, rd, localVars, taken, ret, err>>

\* ---------------------------------------------------------------- display
InSurface(x, y) == 0 <= x /\ x < width /\ 0 <= y /\ y < height

\* lilka::display.drawPixel: the panel has no pixel outside width x height
DrawPixel(s, x, y, c) ==
  IF InSurface(x, y)
  THEN [p \in DOMAIN s \cup {<<x, y>>} |-> IF p = <<x, y>> THEN c ELSE s[p]]
  ELSE s

\* lilka::display.fillRect(x0, y, len, 1, c): a horizontal span, clipped to the panel
FillRect(s, x0, y, len, c) ==
  LET span == { <<x, y>> : x \in { xx \in x0..(Min(x0 + len, width) - 1) : InSurface(xx, y) } }
  IN  [p \in DOMAIN s \cup span |-> IF p \in span THEN c ELSE s[p]]

\* ------------------------------------------------------------- decoding
U16(b, k) == (b[k] + b[k + 1] * 256) % 65536

\* the frame id read most significant byte first
U32BigEndian(b, k) == b[k + 3] + b[k + 2] * 256 + b[k + 1] * 65536 + b[k] * 16777216

U32(b, k) == b[k] + b[k + 1] * 256 + b[k + 2] * 65536 + b[k + 3] * 16777216

\* c++ / c += n on a 32-bit unsigned counter; the peers of this model send far too
\* little for it to reach 2^32, so the sum is the value
Inc(c, n) == c + n

\* ensureUpdateBuffer releasing the old buffer before it asks for the new one
EnsureUpdateBufferFreeFirst(needed, psOk, heapOk) ==
  IF needed <= bufferCapacity /\ ~updateBuffer.null
  THEN [ok |-> TRUE, buf |-> updateBuffer, cap |-> bufferCapacity]
  ELSE IF ~(psOk \/ heapOk)
       THEN [ok |-> FALSE, buf |-> [null |-> TRUE, mem |-> <<>>], cap |-> 0]
       ELSE [ok |-> TRUE, buf |-> [null |-> FALSE, mem |-> <<>>], cap |-> needed]

\* ensureUpdateBuffer reallocating to the needed size whenever it differs
EnsureUpdateBufferExact(needed, psOk, heapOk) ==
  IF needed = bufferCapacity /\ ~updateBuffer.null
  THEN [ok |-> TRUE, buf |-> updateBuffer, cap |-> bufferCapacity]
  ELSE IF ~(psOk \/ heapOk)
       THEN [ok |-> FALSE, buf |-> updateBuffer, cap |-> bufferCapacity]
       ELSE [ok |-> TRUE, buf |-> [null |-> FALSE, mem |-> <<>>], cap |-> needed]

\* ensureUpdateBuffer(needed), given whether ps_malloc and malloc can serve it
EnsureUpdateBuffer(needed, psOk, heapOk) ==
  IF needed <= bufferCapacity /\ ~updateBuffer.null
  THEN [ok |-> TRUE, buf |-> updateBuffer, cap |-> bufferCapacity]
  ELSE IF ~(psOk \/ heapOk)
       THEN [ok |-> FALSE, buf |-> updateBuffer, cap |-> bufferCapacity]
       ELSE [ok |-> TRUE, buf |-> [null |-> FALSE, mem |-> <<>>], cap |-> needed]

\* the pixel decoder forgetting the colour: updateBuffer[k].color keeps what it held
StoreEntryNoColor(mem, k, run, e) ==
  LET old == IF k + 1 <= Len(mem) THEN mem[k + 1]
             ELSE [x |-> Uninit, y |-> Uninit, len |-> Uninit, color |-> Uninit]
      new == IF run
             THEN [x |-> U16(e, 3), y |-> U16(e, 1), len |-> U16(e, 5), color |-> U16(e, 7)]
             ELSE [x |-> U16(e, 1), y |-> U16(e, 3), len |-> old.len, color |-> old.color]
  IN  IF k + 1 <= Len(mem) THEN [mem EXCEPT ![k + 1] = new] ELSE Append(mem, new)

\* updateBuffer[k] = {x, y, len, color}, leaving the fields the frame kind does not set
StoreEntry(mem, k, run, e) ==
  LET old == IF k + 1 <= Len(mem) THEN mem[k + 1]
             ELSE [x |-> Uninit, y |-> Uninit, len |-> Uninit, color |-> Uninit]
      new == IF run
             THEN [x |-> U16(e, 3), y |-> U16(e, 1), len |-> U16(e, 5), color |-> U16(e, 7)]
             ELSE [x |-> U16(e, 1), y |-> U16(e, 3), len |-> old.len, color |-> U16(e, 5)]
  IN  IF k + 1 <= Len(mem) THEN [mem EXCEPT ![k + 1] = new] ELSE Append(mem, new)

\* the pixel apply loop walking the buffer from its last entry to its first
RECURSIVE ApplyPixelLoopReverse(_, _, _)
ApplyPixelLoopReverse(k, n, st) ==
  IF k >= n THEN st
  ELSE LET e == updateBuffer.mem[n] IN
       IF e.x < width /\ e.y < height
       THEN ApplyPixelLoopReverse(k, n - 1,
              [surface |-> DrawPixel(st.surface, e.x, e.y, e.color),
               drawn   |-> Append(st.drawn, <<"drawPixel", e.x, e.y, e.color>>),
               applied |-> Inc(st.applied, 1)])
       ELSE ApplyPixelLoopReverse(k, n - 1, st)

\* the pixel apply loop with a `break` where the code skips an out-of-bounds entry
RECURSIVE ApplyPixelLoopBreak(_, _, _)
ApplyPixelLoopBreak(k, n, st) ==
  IF k >= n THEN st
  ELSE LET e == updateBuffer.mem[k + 1] IN
       IF e.x < width /\ e.y < height
       THEN ApplyPixelLoopBreak(k + 1, n,
              [surface |-> DrawPixel(st.surface, e.x, e.y, e.color),
               drawn   |-> Append(st.drawn, <<"drawPixel", e.x, e.y, e.color>>),
               applied |-> Inc(st.applied, 1)])
       ELSE st

\* the pixel apply loop, from index k to n - 1
RECURSIVE ApplyPixelLoop(_, _, _)
ApplyPixelLoop(k, n, st) ==
  IF k >= n THEN st
  ELSE LET e == updateBuffer.mem[k + 1] IN
       IF e.x < width /\ e.y < height
       THEN ApplyPixelLoop(k + 1, n,
              [surface |-> DrawPixel(st.surface, e.x, e.y, e.color),
               drawn   |-> Append(st.drawn, <<"drawPixel", e.x, e.y, e.color>>),
               applied |-> Inc(st.applied, 1)])
       ELSE ApplyPixelLoop(k + 1, n, st)

\* the run apply loop without the x0 + runLen test: the panel clips the span
RECURSIVE ApplyRunLoopClip(_, _, _)
ApplyRunLoopClip(k, n, st) ==
  IF k >= n THEN st
  ELSE LET e == updateBuffer.mem[k + 1] IN
       IF e.x < width /\ e.y < height /\ e.len > 0
       THEN ApplyRunLoopClip(k + 1, n,
              [surface |-> FillRect(st.surface, e.x, e.y, e.len, e.color),
               drawn   |-> Append(st.drawn, <<"fillRect", e.x, e.y, e.len, e.color>>),
               applied |-> Inc(st.applied, e.len)])
       ELSE ApplyRunLoopClip(k + 1, n, st)

\* the run apply loop with `updatesApplied = runLen` for `updatesApplied += runLen`
RECURSIVE ApplyRunLoopAssign(_, _, _)
ApplyRunLoopAssign(k, n, st) ==
  IF k >= n THEN st
  ELSE LET e == updateBuffer.mem[k + 1] IN
       IF e.x < width /\ e.y < height /\ e.len > 0 /\ (e.x + e.len) <= width
       THEN ApplyRunLoopAssign(k + 1, n,
              [surface |-> FillRect(st.surface, e.x, e.y, e.len, e.color),
               drawn   |-> Append(st.drawn, <<"fillRect", e.x, e.y, e.len, e.color>>),
               applied |-> e.len])
       ELSE ApplyRunLoopAssign(k + 1, n, st)

\* the run apply loop with the sum x0 + runLen kept in 16 bits
RECURSIVE ApplyRunLoopWrap16(_, _, _)
ApplyRunLoopWrap16(k, n, st) ==
  IF k >= n THEN st
  ELSE LET e == updateBuffer.mem[k + 1] IN
       IF e.x < width /\ e.y < height /\ e.len > 0 /\ ((e.x + e.len) % 65536) <= width
       THEN ApplyRunLoopWrap16(k + 1, n,
              [surface |-> FillRect(st.surface, e.x, e.y, e.len, e.color),
               drawn   |-> Append(st.drawn, <<"fillRect", e.x, e.y, e.len, e.color>>),
               applied |-> Inc(st.applied, e.len)])
       ELSE ApplyRunLoopWrap16(k + 1, n, st)

\* the run apply loop with `updatesApplied++` for `updatesApplied += runLen`
RECURSIVE ApplyRunLoopCountRuns(_, _, _)
ApplyRunLoopCountRuns(k, n, st) ==
  IF k >= n THEN st
  ELSE LET e == updateBuffer.mem[k + 1] IN
       IF e.x < width /\ e.y < height /\ e.len > 0 /\ (e.x + e.len) <= width
       THEN ApplyRunLoopCountRuns(k + 1, n,
              [surface |-> FillRect(st.surface, e.x, e.y, e.len, e.color),
               drawn   |-> Append(st.drawn, <<"fillRect", e.x, e.y, e.len, e.color>>),
               applied |-> Inc(st.applied, 1)])
       ELSE ApplyRunLoopCountRuns(k + 1, n, st)

\* the run apply loop, from index k to n - 1
RECURSIVE ApplyRunLoop(_, _, _)
ApplyRunLoop(k, n, st) ==
  IF k >= n THEN st
  ELSE LET e == updateBuffer.mem[k + 1] IN
       IF e.x < width /\ e.y < height /\ e.len > 0 /\ (e.x + e.len) <= width
       THEN ApplyRunLoop(k + 1, n,
              [surface |-> FillRect(st.surface, e.x, e.y, e.len, e.color),
               drawn   |-> Append(st.drawn, <<"fillRect", e.x, e.y, e.len, e.color>>),
               applied |-> Inc(st.applied, e.len)])
       ELSE ApplyRunLoop(k + 1, n, st)

\* --------------------------------------------------------------- receiver
Reading == {"readMagic", "readHeader", "readBody"}

\* len of the readExactly call the task is in
Need == CASE pc = "readMagic" -> 4
          [] pc = "readHeader" -> IF isRun THEN RUN_HEADER_SIZE - 4 ELSE HEADER_SIZE - 4
          [] pc = "readBody" -> IF isRun THEN RunEntrySize ELSE PixelEntrySize
          [] OTHER -> 0

\* memcmp over the first three bytes only
IsPixelMagicPrefix(m) == SubSeq(m, 1, 3) = SubSeq(MAGIC, 1, 3)

\* memcmp(magicBuf, MAGIC, 4) == 0
IsPixelMagic(m) == m = MAGIC

\* memcmp(magicBuf, MAGIC_RUN, 4) == 0
IsRunMagic(m) == m = MAGIC_RUN

\* rest[0] against the version of the recognised tag
VersionOk(run, v) == v = (IF run THEN RUN_VERSION ELSE PROTO_VERSION)

\* the count test off by one
CountTooLargeOffByOne(cnt) == cnt > width * height + 1

\* the count test against the width alone
CountTooLargeWidthOnly(cnt) == cnt > width

\* count > (lilka::display.width() * lilka::display.height())
CountTooLarge(cnt) == cnt > width * height

\* where the task goes once entry number idx - 1 is stored: the body loop's test
AfterEntry(idx, cnt, run) ==
  IF idx < cnt THEN "readBody" ELSE IF run THEN "applyRuns" ELSE "applyPixels"

\* the locals of handleClient die when it returns
NoLocals == isRun' = FALSE /\ frameId' = 0 /\ count' = 0 /\ i' = 0

\* return false; without client.stop()
StopClientKeep(kind) ==
  /\ err' = kind
  /\ ret' = FALSE
  /\ pc' = "check"
  /\ NoLocals
  /\ UNCHANGED <<connected, rx, wire>>

\* client.stop(); return false;
StopClient(kind) ==
  /\ err' = kind
  /\ connected' = FALSE
  /\ rx' = <<>>
  /\ wire' = <<>>
  /\ ret' = FALSE
  /\ pc' = "check"
  /\ NoLocals

\* return true; with the connection kept
ReturnTrue ==
  /\ ret' = TRUE
  /\ pc' = "check"
  /\ NoLocals
  /\ UNCHANGED <<connected, rx, wire, err>>

\* the accept test letting a waiting peer in whatever the state of the client
NoClientOrPeerWaiting == ~attached \/ ~connected \/ pending

\* !client || !client.connected()
NoClient == ~attached \/ ~connected

\* the availability test asking for the 4 bytes of the tag only
WaitForHeaderTagOnly(avail) == avail < 4

\* client.available() < 11: the header is not all there yet
WaitForHeader(avail) == avail < MinHeaderAvailable

\* handleClient up to its first read: accept, connection test, header availability
HandleClientBegin ==
  /\ pc = "loop"
  /\ rd' = <<>>
  /\ IF NoClient
     THEN IF pending
          THEN /\ attached' = TRUE /\ connected' = TRUE /\ pending' = FALSE
               /\ rx' = <<>> /\ wire' = <<>>
               /\ frameCount' = 0 /\ updatesApplied' = 0
               /\ surface' = Blank
               /\ drawn' = Append(drawn, <<"fillScreen">>)
               /\ ret' = TRUE
               /\ pc' = "check"
          ELSE /\ attached' = FALSE /\ connected' = FALSE
               /\ ret' = FALSE
               /\ pc' = "check"
               /\ UNCHANGED <<pending, rx, wire, frameCount, updatesApplied, displayVars>>
     ELSE /\ IF WaitForHeader(Len(rx))
             THEN ret' = TRUE /\ pc' = "check"
             ELSE ret' = ret /\ pc' = "readMagic"
          /\ UNCHANGED <<attached, connected, pending, rx, wire, frameCount,
                         updatesApplied, displayVars>>
  /\ UNCHANGED <<dimVars, lastFrameId, bufVars, localVars, taken, err, conns, sent>>

\* readExactly giving up after its first pass, whatever it has got
ReadExactlyReturnsEarly == TRUE

\* readExactly's loop ends: !(got < len && c.connected())
ReadExactlyReturns == Len(rd) = Need \/ ~connected

\* one productive iteration of readExactly's loop: c.read() returned chunk > 0
ReadChunk ==
  /\ pc \in Reading
  /\ Len(rd) < Need /\ connected
  /\ rx # <<>>
  /\ LET chunk == Min(Len(rx), Need - Len(rd)) IN
       /\ rd' = rd \o SubSeq(rx, 1, chunk)
       /\ taken' = taken \o SubSeq(rx, 1, chunk)
       /\ rx' = SubSeq(rx, chunk + 1, Len(rx))
  /\ UNCHANGED <<dimVars, displayVars, peerVars, attached, connected, wire, statVars,
                 bufVars, pc, localVars, ret, err>>

\* readExactly(client, magicBuf, 4) has returned
MagicDone ==
  /\ pc = "readMagic"
  /\ ReadExactlyReturns
  /\ rd' = <<>>
  /\ IF Len(rd) # Need
     THEN StopClient("Truncated")
     ELSE IF ~IsRunMagic(rd) /\ ~IsPixelMagic(rd)
          THEN StopClient("BadMagic")
          ELSE /\ isRun' = ~IsPixelMagic(rd)
               /\ pc' = "readHeader"
               /\ UNCHANGED <<connected, rx, wire, ret, err, frameId, count, i>>
  /\ UNCHANGED <<dimVars, displayVars, peerVars, attached, statVars, bufVars, taken>>

\* readExactly(client, rest, 7) has returned: version, frameId, count, buffer
HeaderDone ==
  /\ pc = "readHeader"
  /\ ReadExactlyReturns
  /\ rd' = <<>>
  /\ IF Len(rd) # Need
     THEN StopClient("Truncated") /\ UNCHANGED <<statVars, bufVars>>
     ELSE IF ~VersionOk(isRun, rd[1])
          THEN StopClient("UnsupportedVersion") /\ UNCHANGED <<statVars, bufVars>>
          ELSE LET id == U32(rd, 2)
                   cnt == U16(rd, 6)
               IN  IF cnt = 0
                   THEN /\ frameCount' = Inc(frameCount, 1)
                        /\ lastFrameId' = id
                        /\ ReturnTrue
                        /\ UNCHANGED <<updatesApplied, bufVars>>
                   ELSE IF CountTooLarge(cnt)
                        THEN StopClient("CountTooLarge") /\ UNCHANGED <<statVars, bufVars>>
                        ELSE \E psOk, heapOk \in BOOLEAN :
                               LET r == EnsureUpdateBuffer(cnt, psOk, heapOk) IN
                                 /\ updateBuffer' = r.buf
                                 /\ bufferCapacity' = r.cap
                                 /\ UNCHANGED statVars
                                 /\ IF ~r.ok
                                    THEN StopClient("AllocationFailure")
                                    ELSE /\ frameId' = id
                                         /\ count' = cnt
                                         /\ i' = 0
                                         /\ pc' = "readBody"
                                         /\ UNCHANGED <<isRun, connected, rx, wire, ret, err>>
  /\ UNCHANGED <<dimVars, displayVars, peerVars, attached, taken>>

\* the body loop drawing each entry as soon as it is decoded
EntryDoneEager ==
  /\ pc = "readBody"
  /\ ReadExactlyReturns
  /\ rd' = <<>>
  /\ IF Len(rd) # Need
     THEN StopClient("Truncated") /\ UNCHANGED <<updateBuffer, displayVars>>
     ELSE /\ updateBuffer' = [updateBuffer EXCEPT !.mem = StoreEntry(@, i, isRun, rd)]
          /\ LET e == updateBuffer'.mem[i + 1] IN
               /\ surface' = IF isRun THEN FillRect(surface, e.x, e.y, e.len, e.color)
                                       ELSE DrawPixel(surface, e.x, e.y, e.color)
               /\ drawn' = drawn
          /\ i' = i + 1
          /\ pc' = AfterEntry(i', count, isRun)
          /\ UNCHANGED <<connected, rx, wire, ret, err, isRun, frameId, count>>
  /\ UNCHANGED <<dimVars, peerVars, attached, statVars, bufferCapacity, taken>>

\* readExactly(client, entry, 6 or 8) has returned inside the body loop
EntryDone ==
  /\ pc = "readBody"
  /\ ReadExactlyReturns
  /\ rd' = <<>>
  /\ IF Len(rd) # Need
     THEN StopClient("Truncated") /\ UNCHANGED updateBuffer
     ELSE /\ updateBuffer' = [updateBuffer EXCEPT !.mem = StoreEntry(@, i, isRun, rd)]
          /\ i' = i + 1
          /\ pc' = AfterEntry(i', count, isRun)
          /\ UNCHANGED <<connected, rx, wire, ret, err, isRun, frameId, count>>
  /\ UNCHANGED <<dimVars, displayVars, peerVars, attached, statVars, bufferCapacity, taken>>

\* the batch apply of a pixel frame, the statistics and return true
ApplyPixels ==
  /\ pc = "applyPixels"
  /\ LET st == ApplyPixelLoop(0, count,
                 [surface |-> surface, drawn |-> drawn, applied |-> updatesApplied]) IN
       /\ surface' = st.surface
       /\ drawn' = st.drawn
       /\ updatesApplied' = st.applied
  /\ frameCount' = Inc(frameCount, 1)
  /\ lastFrameId' = frameId
  /\ ReturnTrue
  /\ UNCHANGED <<dimVars, peerVars, attached, bufVars, rd, taken>>

\* the batch apply of a run frame, the statistics and return true
ApplyRuns ==
  /\ pc = "applyRuns"
  /\ LET st == ApplyRunLoop(0, count,
                 [surface |-> surface, drawn |-> drawn, applied |-> updatesApplied]) IN
       /\ surface' = st.surface
       /\ drawn' = st.drawn
       /\ updatesApplied' = st.applied
  /\ frameCount' = Inc(frameCount, 1)
  /\ lastFrameId' = frameId
  /\ ReturnTrue
  /\ UNCHANGED <<dimVars, peerVars, attached, bufVars, rd, taken>>

\* loop(), after handleClient: the waiting screen when the client is gone
LoopCheck ==
  /\ pc = "check"
  /\ IF attached /\ ~connected
     THEN /\ surface' = Blank
          /\ drawn' = << <<"showWaitingScreen">> >>
     ELSE /\ surface' = surface
          /\ drawn' = <<>>
  /\ pc' = "loop"
  /\ taken' = <<>>
  /\ UNCHANGED <<dimVars, peerVars, attached, connected, wire, rx, statVars, bufVars,
                 rd, localVars, ret, err>>

Next ==
  \/ PeerConnect
  \/ PeerSend
  \/ Deliver
  \/ PeerClose
  \/ HandleClientBegin
  \/ ReadChunk
  \/ MagicDone
  \/ HeaderDone
  \/ EntryDone
  \/ ApplyPixels
  \/ ApplyRuns
  \/ LoopCheck

Spec == Init /\ [][Next]_vars

SpecLilka == InitLilka /\ [][Next]_vars

SpecLong == InitLong /\ [][Next]_vars

\* the task never stops executing: a step of readExactly or of its caller that
\* stays possible is eventually taken; the peers and the network owe nothing
SpecLongFair ==
  /\ InitLong /\ [][Next]_vars
  /\ WF_vars(ReadChunk) /\ WF_vars(MagicDone) /\ WF_vars(HeaderDone) /\ WF_vars(EntryDone)

\* ------------------------------------------- one run entry, any field values
\* The apply step of a one-run frame, for field values around every boundary of
\* the acceptance test: 0, the surface's edge, and the top of the 16-bit range.
RunYs(H) == {0, H - 1, H, 65535}

RunX0s(W) == {0, 1, W - 1, W, W + 1, 65535 - W, 65535}

RunLens(W) == {0, 1, 2, W - 1, W, W + 1, 65534, 65535}

\* handleClient has read the frame and stored its run; the apply loop is next
InitRunEntry ==
  /\ width = SmallWidth /\ height = SmallHeight
  /\ \E y \in RunYs(SmallHeight), x0 \in RunX0s(SmallWidth), len \in RunLens(SmallWidth) :
       /\ taken = Frame(MAGIC_RUN, RUN_VERSION, FrameIdB, 1, << <<y, x0, len, Green>> >>)
       /\ updateBuffer = [null |-> FALSE,
                          mem |-> << [x |-> x0, y |-> y, len |-> len, color |-> Green] >>]
  /\ bufferCapacity = 1
  /\ surface = Blank
  /\ drawn = <<>>
  /\ pending = FALSE
  /\ attached = TRUE
  /\ connected = TRUE
  /\ wire = <<>>
  /\ rx = <<>>
  /\ frameCount = 0
  /\ updatesApplied = 0
  /\ lastFrameId = 0
  /\ pc = "applyRuns"
  /\ rd = <<>>
  /\ isRun = TRUE
  /\ frameId = FrameIdB
  /\ count = 1
  /\ i = 1
  /\ ret = TRUE
  /\ err = "None"
  /\ conns = 1
  /\ sent = 1

NextRunEntry ==
  \/ ApplyRuns
  \/ LoopCheck

SpecRunEntry == InitRunEntry /\ [][NextRunEntry]_vars

TypeOK ==
  /\ pc \in {"loop", "check", "applyPixels", "applyRuns"} \cup Reading
  /\ frameCount \in Nat
  /\ updatesApplied \in Nat
  /\ lastFrameId \in Nat
  /\ \A k \in 1..Len(rx) : rx[k] \in 0..255
  /\ Len(rd) <= Need
  /\ err \in {"None", "BadMagic", "UnsupportedVersion", "CountTooLarge", "Truncated",
              "AllocationFailure"}

\* ------------------------------------------------- the packet as it was sent
\* The bytes handleClient has taken off the stream, read as the wire format
\* defines them: an 11-byte header, then 6-byte pixel or 8-byte run entries.
WireMagic == SubSeq(taken, 1, 4)
WireVersion == taken[5]
WireFrameId == taken[6] + 256 * taken[7] + 65536 * taken[8] + 16777216 * taken[9]
WireCount == taken[10] + 256 * taken[11]

WireField(k, f, size) ==
  LET o == HEADER_SIZE + k * size + 2 * f IN taken[o + 1] + 256 * taken[o + 2]

WirePixel(k) ==
  [x |-> WireField(k, 0, PixelEntrySize), y |-> WireField(k, 1, PixelEntrySize),
   color |-> WireField(k, 2, PixelEntrySize)]

WireRun(k) ==
  [y |-> WireField(k, 0, RunEntrySize), x0 |-> WireField(k, 1, RunEntrySize),
   length |-> WireField(k, 2, RunEntrySize), color |-> WireField(k, 3, RunEntrySize)]

WirePixels == [k \in 1..WireCount |-> WirePixel(k - 1)]
WireRuns == [k \in 1..WireCount |-> WireRun(k - 1)]

PixelInBounds(e) == e.x < width /\ e.y < height
RunAccepted(e) == e.y < height /\ e.length > 0 /\ e.x0 + e.length <= width

ExpectedPixelCalls ==
  LET ok == SelectSeq(WirePixels, PixelInBounds)
  IN  [j \in 1..Len(ok) |-> <<"drawPixel", ok[j].x, ok[j].y, ok[j].color>>]

ExpectedRunCalls ==
  LET ok == SelectSeq(WireRuns, RunAccepted)
  IN  [j \in 1..Len(ok) |-> <<"fillRect", ok[j].x0, ok[j].y, ok[j].length, ok[j].color>>]

RECURSIVE SumLengths(_)
SumLengths(runs) == IF runs = <<>> THEN 0 ELSE Head(runs).length + SumLengths(Tail(runs))

RunSpan(e) == { <<x, e.y>> : x \in e.x0..(e.x0 + e.length - 1) }

OnSurface(s) == \A p \in DOMAIN s : InSurface(p[1], p[2])

\* a step of the task inside loop(); the environment never moves pc, rd or i
RecvStep == <<pc, rd, i>>' # <<pc, rd, i>>

ValidPixelFrameTaken ==
  /\ Len(taken) >= HEADER_SIZE
  /\ WireMagic = MAGIC /\ WireVersion = PROTO_VERSION
  /\ 0 < WireCount /\ WireCount <= width * height
  /\ Len(taken) = HEADER_SIZE + PixelEntrySize * WireCount

ValidRunFrameTaken ==
  /\ Len(taken) >= RUN_HEADER_SIZE
  /\ WireMagic = MAGIC_RUN /\ WireVersion = RUN_VERSION
  /\ 0 < WireCount /\ WireCount <= width * height
  /\ Len(taken) = RUN_HEADER_SIZE + RunEntrySize * WireCount

\* ------------------------------------------------------------------ claims
\* C1: when a valid, fully delivered pixel frame is applied, the display gets one
\* drawPixel call per in-bounds entry, in wire order and with that entry's colour,
\* and none for an entry with x >= width or y >= height; updatesApplied grows by
\* the number of in-bounds entries; pixels no in-bounds entry names keep their
\* colour; the connection is kept and handleClient returns true.
C1_PixelEntriesApplied ==
  [][ (pc = "applyPixels" /\ pc' = "check") =>
        /\ ValidPixelFrameTaken
        /\ drawn' = drawn \o ExpectedPixelCalls
        /\ updatesApplied' = updatesApplied + Len(ExpectedPixelCalls)
        /\ OnSurface(surface')
        /\ \A p \in DOMAIN surface \cup DOMAIN surface'
                    \cup { <<WirePixel(k).x, WirePixel(k).y>> : k \in 0..(WireCount - 1) } :
             LET hits == { k \in 0..(WireCount - 1) :
                             /\ PixelInBounds(WirePixel(k))
                             /\ <<WirePixel(k).x, WirePixel(k).y>> = p }
             IN  IF hits = {}
                 THEN GetPixel(surface', p[1], p[2]) = GetPixel(surface, p[1], p[2])
                 ELSE GetPixel(surface', p[1], p[2]) \in { WirePixel(k).color : k \in hits }
        /\ connected' = connected
        /\ ret' = TRUE
    ]_vars

\* a frame whose first two entries are out of bounds and whose third was drawn
C1_Witness ==
  /\ pc = "check" /\ ret /\ connected
  /\ ValidPixelFrameTaken
  /\ WireCount = 3
  /\ WirePixel(0).x >= width
  /\ WirePixel(1).y >= height
  /\ PixelInBounds(WirePixel(2))
  /\ drawn = << <<"drawPixel", WirePixel(2).x, WirePixel(2).y, WirePixel(2).color>> >>
  /\ GetPixel(surface, WirePixel(2).x, WirePixel(2).y) = WirePixel(2).color
  /\ updatesApplied = 1

\* C2: when a valid run frame is applied, every run with y < height, length > 0
\* and x0 + length <= width is filled by one fillRect call over exactly
\* (x0 .. x0+length-1, y) and adds length to updatesApplied; every other run causes
\* no call, no pixel change and no count; rejected runs do not stop later runs.
C2_RunsAllOrNothing ==
  [][ (pc = "applyRuns" /\ pc' = "check") =>
        /\ ValidRunFrameTaken
        /\ drawn' = drawn \o ExpectedRunCalls
        /\ updatesApplied' = updatesApplied + SumLengths(SelectSeq(WireRuns, RunAccepted))
        /\ OnSurface(surface')
        /\ \A p \in DOMAIN surface \cup DOMAIN surface'
                    \cup UNION { RunSpan(WireRun(k)) :
                                   k \in { j \in 0..(WireCount - 1) : RunAccepted(WireRun(j)) } } :
             LET cover == { k \in 0..(WireCount - 1) :
                              RunAccepted(WireRun(k)) /\ p \in RunSpan(WireRun(k)) }
             IN  IF cover = {}
                 THEN GetPixel(surface', p[1], p[2]) = GetPixel(surface, p[1], p[2])
                 ELSE GetPixel(surface', p[1], p[2]) \in { WireRun(k).color : k \in cover }
        /\ connected' = connected
        /\ ret' = TRUE
    ]_vars

\* a frame whose first run starts inside the surface but overruns its width, and
\* whose second run was filled
C2_Witness ==
  /\ pc = "check" /\ ret /\ connected
  /\ ValidRunFrameTaken
  /\ WireCount = 2
  /\ WireRun(0).x0 < width /\ WireRun(0).y < height /\ WireRun(0).length > 0
  /\ ~RunAccepted(WireRun(0))
  /\ RunAccepted(WireRun(1))
  /\ drawn = << <<"fillRect", WireRun(1).x0, WireRun(1).y, WireRun(1).length, WireRun(1).color>> >>
  /\ updatesApplied = WireRun(1).length

\* what a step leaves alone
StatsKept == UNCHANGED <<frameCount, updatesApplied, lastFrameId>>
DisplayKept == UNCHANGED <<surface, drawn>>

EntrySizeTaken == IF WireMagic = MAGIC_RUN THEN RunEntrySize ELSE PixelEntrySize

\* entry k of the update buffer holds what the wire's entry k says
BufferHoldsEntry(k) ==
  LET e == updateBuffer.mem[k + 1] IN
    IF WireMagic = MAGIC_RUN
    THEN /\ e.y = WireRun(k).y /\ e.x = WireRun(k).x0
         /\ e.len = WireRun(k).length /\ e.color = WireRun(k).color
    ELSE /\ e.x = WirePixel(k).x /\ e.y = WirePixel(k).y /\ e.color = WirePixel(k).color

\* C3: while handleClient reads a packet nothing is drawn and no statistic moves;
\* the display is written only by the apply step, which runs only when all
\* entryCount entries of the frame are read and stored in the update buffer; and a
\* disconnection after the header and before the last body byte drops the client
\* with the surface and the statistics as they were.
C3_NoPartialFrame ==
  [][ /\ (pc \in Reading \/ (pc = "loop" /\ pc' = "readMagic")) /\ pc' # "check"
           => DisplayKept /\ StatsKept
      /\ (pc \notin {"loop", "check"} /\ ~DisplayKept)
           => /\ pc \in {"applyPixels", "applyRuns"}
              /\ i = count
              /\ count = WireCount
              /\ Len(taken) = HEADER_SIZE + EntrySizeTaken * WireCount
              /\ Len(updateBuffer.mem) >= count
              /\ \A k \in 0..(count - 1) : BufferHoldsEntry(k)
      /\ (pc = "readBody" /\ Len(rd) < Need /\ ~connected /\ RecvStep)
           => /\ DisplayKept /\ StatsKept
              /\ ~connected' /\ ret' = FALSE /\ pc' = "check" /\ err' = "Truncated"
    ]_vars

\* the peer went away in the middle of the first entry of a two-entry pixel frame,
\* after an earlier frame had drawn on the surface
C3_Witness ==
  /\ pc = "check" /\ err = "Truncated" /\ ~connected /\ ~ret
  /\ Len(taken) > HEADER_SIZE
  /\ WireMagic = MAGIC /\ WireCount = 2
  /\ (Len(taken) - HEADER_SIZE) % PixelEntrySize # 0
  /\ frameCount = 1
  /\ DOMAIN surface # {}

BadMagicSeen == pc = "readMagic" /\ Len(rd) = 4 /\ rd # MAGIC /\ rd # MAGIC_RUN

HeaderSeen == pc = "readHeader" /\ Len(rd) = HEADER_SIZE - 4 /\ Len(taken) = HEADER_SIZE

WireVersionMatches ==
  \/ WireMagic = MAGIC /\ WireVersion = 2
  \/ WireMagic = MAGIC_RUN /\ WireVersion = 1

BadVersionSeen == HeaderSeen /\ ~WireVersionMatches

TooLargeSeen == HeaderSeen /\ WireVersionMatches /\ WireCount > width * height

TruncatedSeen == pc \in Reading /\ Len(rd) < Need /\ ~connected

GrowthSeen == HeaderSeen /\ WireVersionMatches /\ 0 < WireCount /\ WireCount <= width * height

\* the step drops the client for the given reason and touches nothing else
Fatal(kind) ==
  /\ err' = kind
  /\ ~connected' /\ ret' = FALSE /\ pc' = "check"
  /\ StatsKept /\ DisplayKept

\* C4: the step of handleClient that meets a bad magic, a wrong version, a count
\* above width*height, a stream that ended early or a failed allocation stops the
\* client and returns false with the statistics and the surface untouched, and the
\* task goes on: the next handleClient call with a peer waiting accepts it.
C4_FatalErrorsDropClient ==
  [][ RecvStep =>
        /\ BadMagicSeen => Fatal("BadMagic")
        /\ BadVersionSeen => Fatal("UnsupportedVersion")
        /\ TooLargeSeen => Fatal("CountTooLarge")
        /\ TruncatedSeen => Fatal("Truncated")
        /\ (GrowthSeen /\ pc' = "check") => Fatal("AllocationFailure")
        /\ (pc = "loop" /\ ~connected /\ pending)
             => /\ attached' /\ connected' /\ ret' = TRUE /\ pc' = "check"
                /\ frameCount' = 0 /\ updatesApplied' = 0
    ]_vars

\* after a client was dropped for a failed allocation, a later client got a frame
\* decoded and drawn
C4_Witness ==
  /\ err = "AllocationFailure"
  /\ pc = "check" /\ ret /\ connected
  /\ frameCount = 1
  /\ Len(drawn) > 0
  /\ Len(taken) > HEADER_SIZE

UnknownMagic(m) == m # MAGIC /\ m # MAGIC_RUN

\* C5 as stated: a handleClient call that finds the next 4 unread bytes to be an
\* unknown tag never returns with the connection still up.
C5_Original ==
  [][ (pc = "loop" /\ attached /\ connected /\ Len(rx) >= 4
          /\ UnknownMagic(SubSeq(rx, 1, 4)) /\ RecvStep)
        => (pc' = "readMagic" \/ ~connected')
    ]_vars

\* C5 amended: with at least 11 bytes buffered and an unknown tag in the first 4,
\* the handleClient call reads the tag (the bytes are there, so it cannot wait) and
\* drops the client having consumed those 4 bytes only, framesReceived and the
\* surface untouched, whatever the following bytes are; with fewer than 11 bytes
\* buffered the call reads nothing and keeps the connection.
C5_BadMagicRejected ==
  [][ /\ (pc = "loop" /\ attached /\ connected /\ Len(rx) < 11 /\ RecvStep)
           => /\ pc' = "check" /\ ret' = TRUE /\ connected'
              /\ rx' = rx /\ taken' = taken /\ StatsKept /\ DisplayKept
      /\ (pc = "loop" /\ attached /\ connected /\ Len(rx) >= MinHeaderAvailable
             /\ UnknownMagic(SubSeq(rx, 1, 4)) /\ RecvStep)
           => pc' = "readMagic" /\ rx' = rx /\ rd' = <<>> /\ StatsKept /\ DisplayKept
      /\ (pc' = "readMagic" /\ connected') => Len(rd') + Len(rx') >= MinHeaderAvailable
      /\ (pc = "readMagic" /\ Len(rd \o rx) >= 4 /\ UnknownMagic(SubSeq(rd \o rx, 1, 4))
             /\ RecvStep)
           => /\ StatsKept /\ DisplayKept
              /\ \/ pc' = "readMagic" /\ Len(rd') = 4 /\ connected'
                 \/ Fatal("BadMagic") /\ Len(taken') = 4
      /\ (pc = "readMagic" /\ connected /\ Len(rd) = 4 /\ UnknownMagic(rd) /\ RecvStep)
           => Fatal("BadMagic") /\ Len(taken') = 4
    ]_vars

\* the tag "PXUX" got a client dropped that had a frame drawn before
C5_Witness ==
  /\ pc = "check" /\ err = "BadMagic" /\ ~connected /\ ~ret
  /\ taken = <<80, 88, 85, 88>>
  /\ frameCount = 1
  /\ DOMAIN surface # {}

\* C6: a header with a known tag, its version and entryCount 0 is a frame of its
\* own: no further byte is read, framesReceived grows by 1, lastFrameId becomes the
\* header's frameId, the surface and updatesApplied stay, the connection is kept.
C6_EmptyFrame ==
  [][ (HeaderSeen /\ WireVersionMatches /\ WireCount = 0 /\ RecvStep)
        => /\ frameCount' = frameCount + 1
           /\ lastFrameId' = WireFrameId
           /\ updatesApplied' = updatesApplied
           /\ DisplayKept
           /\ taken' = taken /\ rx' = rx
           /\ connected' = connected
           /\ ret' = TRUE /\ pc' = "check"
    ]_vars

\* an empty run frame arrived after a frame that had drawn and counted updates
C6_Witness ==
  /\ pc = "check" /\ ret /\ connected
  /\ Len(taken) = HEADER_SIZE
  /\ WireMagic = MAGIC_RUN /\ WireCount = 0
  /\ frameCount = 2
  /\ lastFrameId = WireFrameId
  /\ updatesApplied > 0
  /\ DOMAIN surface # {}

\* C7: a header of either kind whose entryCount exceeds width*height gets the
\* client stopped in the step that parses it: no byte after the header is read,
\* the buffer is neither allocated nor grown, nothing is drawn or counted.
C7_CountTooLargeRejected ==
  [][ (TooLargeSeen /\ RecvStep)
        => /\ Fatal("CountTooLarge")
           /\ taken' = taken
           /\ UNCHANGED <<updateBuffer, bufferCapacity>>
    ]_vars

\* a run frame announcing width*height + 1 runs got the client dropped while the
\* buffer was smaller than that
C7_Witness ==
  /\ pc = "check" /\ err = "CountTooLarge" /\ ~connected /\ ~ret
  /\ Len(taken) = RUN_HEADER_SIZE
  /\ WireMagic = MAGIC_RUN
  /\ WireCount = width * height + 1
  /\ bufferCapacity < WireCount
  /\ frameCount = 1

ScenarioESeen ==
  /\ width = LilkaWidth /\ height = LilkaHeight
  /\ HeaderSeen /\ WireMagic = MAGIC /\ WireVersion = 2 /\ WireCount = BigCount

\* C8 as stated: on the 280x240 surface the pixel header with entryCount 50000 is
\* refused: the step that parses it stops the client and returns, so that no body
\* entry is ever decoded.
C8_Original ==
  [][ (ScenarioESeen /\ RecvStep) => (~connected' /\ ret' = FALSE /\ pc' = "check") ]_vars

\* C8 amended: on the 280x240 surface the pixel header with entryCount 50000
\* passes the count test (50000 <= 67200): the step either goes on to read the
\* body with a buffer of at least 50000 entries and the connection as it was, or
\* drops the client for a failed allocation; it draws and counts nothing.
C8_ScenarioEAccepted ==
  [][ (ScenarioESeen /\ RecvStep)
        => /\ err' # "CountTooLarge"
           /\ StatsKept /\ DisplayKept
           /\ \/ /\ pc' = "readBody" /\ count' = BigCount /\ i' = 0
                 /\ bufferCapacity' >= BigCount /\ ~updateBuffer'.null
                 /\ connected' = connected
              \/ Fatal("AllocationFailure")
    ]_vars

\* the receiver is inside the body of the 50000-entry frame, one entry stored
C8_Witness ==
  /\ width = LilkaWidth /\ height = LilkaHeight
  /\ pc = "readBody" /\ connected
  /\ count = BigCount /\ i = 1
  /\ bufferCapacity = BigCount
  /\ err = "None"

\* handleClient takes a waiting peer as its client
AcceptSeen == pc = "loop" /\ (~attached \/ ~connected) /\ pending

\* C9: the step that accepts a connection leaves framesReceived, updatesApplied
\* and lastFrameId all zero.
C9_StatsZeroOnAccept ==
  [][ (AcceptSeen /\ RecvStep)
        => (frameCount' = 0 /\ updatesApplied' = 0 /\ lastFrameId' = 0)
    ]_vars

\* C10 as stated: no step other than an accept makes any of the three statistics
\* smaller.
C10_Original ==
  [][ ~AcceptSeen
        => /\ frameCount' >= frameCount
           /\ updatesApplied' >= updatesApplied
           /\ lastFrameId' >= lastFrameId
    ]_vars

\* C10 amended: no step other than an accept makes framesReceived or
\* updatesApplied smaller; lastFrameId changes only in a step that counts a frame
\* and then equals the frameId of that frame's header, larger or smaller.
C10_CountersMonotone ==
  [][ ~AcceptSeen
        => /\ frameCount' >= frameCount
           /\ updatesApplied' >= updatesApplied
           /\ lastFrameId' # lastFrameId
                => (frameCount' = frameCount + 1 /\ lastFrameId' = WireFrameId)
    ]_vars

\* the second frame of a connection carried a smaller frameId than the first, a
\* run frame that had counted updates
C10_Witness ==
  /\ pc = "check" /\ ret /\ connected
  /\ frameCount = 2
  /\ Len(taken) >= HEADER_SIZE
  /\ WireMagic = MAGIC
  /\ lastFrameId = WireFrameId
  /\ lastFrameId = FrameIdA
  /\ updateBuffer.mem # <<>>
  /\ updateBuffer.mem[1].len # Uninit
  /\ updatesApplied > Len(drawn)

\* C11: bufferCapacity never decreases, over frames and over connections; a frame
\* whose entryCount fits the current capacity leaves the buffer and the capacity
\* as they are (no allocation); the capacity changes only in the step that parses
\* a header whose entryCount n exceeds it, and then to exactly n with a fresh
\* buffer, unless the allocation fails and everything stays.
C11_CapacityNeverShrinks ==
  [][ /\ bufferCapacity' >= bufferCapacity
      /\ (GrowthSeen /\ RecvStep)
           => IF WireCount <= bufferCapacity
              THEN UNCHANGED <<updateBuffer, bufferCapacity>> /\ pc' = "readBody"
              ELSE \/ /\ bufferCapacity' = WireCount
                      /\ ~updateBuffer'.null /\ updateBuffer'.mem = <<>>
                      /\ pc' = "readBody"
                   \/ UNCHANGED <<updateBuffer, bufferCapacity>> /\ pc' = "check"
      /\ (bufferCapacity' # bufferCapacity \/ updateBuffer'.null # updateBuffer.null)
           => GrowthSeen /\ WireCount > bufferCapacity /\ bufferCapacity' = WireCount
    ]_vars

\* a second connection's frame needs fewer entries than the buffer a frame of the
\* first connection left behind, and decoding goes on in that buffer
C11_Witness ==
  /\ conns = 2 /\ connected /\ err = "None"
  /\ pc = "readBody" /\ i = 0
  /\ 0 < count /\ count < bufferCapacity
  /\ Len(updateBuffer.mem) = bufferCapacity

\* C12: with a client connected and fewer than 11 bytes buffered, the handleClient
\* call returns true at once, without entering a read: it takes no byte off the
\* transport, leaves the surface, the statistics and the buffer as they were and
\* keeps the connection.
C12_IncompleteHeaderWaits ==
  [][ (pc = "loop" /\ attached /\ connected /\ Len(rx) < HEADER_SIZE /\ RecvStep)
        => /\ pc' = "check" /\ ret' = TRUE
           /\ rx' = rx /\ wire' = wire /\ taken' = taken /\ rd' = <<>>
           /\ attached' /\ connected'
           /\ StatsKept /\ DisplayKept
           /\ UNCHANGED <<updateBuffer, bufferCapacity>>
    ]_vars

\* a call returned true having consumed nothing while part of a header was
\* buffered, on a connection that had a frame counted and drawn before
C12_Witness ==
  /\ pc = "check" /\ ret /\ connected
  /\ taken = <<>>
  /\ 0 < Len(rx) /\ Len(rx) < HEADER_SIZE
  /\ frameCount = 1
  /\ DOMAIN surface # {}
  /\ bufferCapacity > 0

\* C13: a waiting peer is taken out of the accept queue only by a handleClient
\* call that finds no client attached or the attached client disconnected; while
\* a client is attached and connected, neither the arrival of a second peer nor
\* any handleClient step replaces it, zeroes its statistics or blanks the surface,
\* and the second peer keeps waiting.
C13_OneClientAtATime ==
  [][ /\ (pending /\ ~pending')
           => /\ pc = "loop" /\ (~attached \/ ~connected)
              /\ attached' /\ connected' /\ pc' = "check"
      /\ (attached /\ connected /\ ~pending /\ pending')
           => /\ attached' /\ connected'
              /\ StatsKept /\ DisplayKept
              /\ UNCHANGED <<rx, wire, pc, rd, taken>>
      /\ (attached /\ connected /\ pending)
           => /\ pending' /\ attached'
              /\ frameCount' >= frameCount
              /\ updatesApplied' >= updatesApplied
              /\ DOMAIN surface \subseteq DOMAIN surface'
              /\ (RecvStep => connected' \/ (pc \in Reading /\ pc' = "check" /\ ret' = FALSE))
    ]_vars

\* a second peer waits while the first client, still connected, has had two
\* frames counted and the surface drawn
C13_Witness ==
  /\ pending /\ attached /\ connected
  /\ conns = 2
  /\ pc = "check" /\ ret
  /\ frameCount = 2
  /\ DOMAIN surface # {}
  /\ Len(taken) > HEADER_SIZE

\* what the frame just taken off the stream adds to updatesApplied
AppliedByFrame ==
  IF WireMagic = MAGIC
  THEN Cardinality({ k \in 0..(WireCount - 1) : PixelInBounds(WirePixel(k)) })
  ELSE SumLengths(SelectSeq(WireRuns, RunAccepted))

\* C14: the step that stores the last entry of a frame goes on to the apply step,
\* and the apply step of a frame with entryCount > 0 raises framesReceived by
\* exactly 1, sets lastFrameId to the header's frameId and raises updatesApplied
\* by the number of in-bounds pixel entries or by the summed lengths of the
\* accepted runs: by 0, with the frame still counted, when every entry is rejected.
C14_FrameStatistics ==
  [][ /\ (pc = "readBody" /\ Len(rd) = Need /\ i = count - 1 /\ RecvStep)
           => pc' \in {"applyPixels", "applyRuns"}
      /\ (pc \in {"applyPixels", "applyRuns"} /\ RecvStep)
           => /\ ValidPixelFrameTaken \/ ValidRunFrameTaken
              /\ frameCount' = frameCount + 1
              /\ lastFrameId' = WireFrameId
              /\ updatesApplied' = updatesApplied + AppliedByFrame
              /\ pc' = "check" /\ ret' = TRUE
    ]_vars

\* a run frame whose only run starts inside the surface and ends beyond its width
\* was counted as the second frame of a connection, with updatesApplied left at
\* what the first frame had made it
C14_Witness ==
  /\ pc = "check" /\ ret /\ connected
  /\ ValidRunFrameTaken
  /\ WireCount = 1
  /\ WireRun(0).x0 < width /\ WireRun(0).y < height /\ WireRun(0).length > 0
  /\ WireRun(0).x0 + WireRun(0).length > width
  /\ drawn = <<>>
  /\ frameCount = 2
  /\ lastFrameId = WireFrameId
  /\ updatesApplied = 1

\* the fillRect calls the step has added to the display's log
NewCalls == SubSeq(drawn', Len(drawn) + 1, Len(drawn'))

\* C15: in the apply step of a run frame, a run (y, x0, length, color) of any
\* 16-bit field values gets its fillRect call if and only if y < height,
\* length > 0 and the true sum x0 + length <= width; every run that condition
\* accepts has x0 < width, so the code's extra test rejects none of them; and no
\* run with x0 + length above 65535 gets a call.
C15_RunAcceptance ==
  [][ (pc = "applyRuns" /\ RecvStep) =>
        /\ ValidRunFrameTaken
        /\ Len(NewCalls) = Cardinality({ k \in 0..(WireCount - 1) : RunAccepted(WireRun(k)) })
        /\ \A k \in 0..(WireCount - 1) :
             LET e == WireRun(k)
                 called == \E j \in 1..Len(NewCalls) :
                             NewCalls[j] = <<"fillRect", e.x0, e.y, e.length, e.color>>
             IN  /\ called <=> RunAccepted(e)
                 /\ RunAccepted(e) => e.x0 < width
                 /\ e.x0 + e.length > 65535 => ~called
        /\ updatesApplied' = updatesApplied + SumLengths(SelectSeq(WireRuns, RunAccepted))
    ]_vars

\* a run inside the surface whose x0 + length exceeds 65535, and would be within
\* the width in 16 bits, was left out and the frame counted
C15_Witness ==
  /\ pc = "check" /\ ret
  /\ ValidRunFrameTaken
  /\ WireCount = 1
  /\ WireRun(0).x0 < width /\ WireRun(0).y < height
  /\ WireRun(0).x0 + WireRun(0).length > 65535
  /\ (WireRun(0).x0 + WireRun(0).length) % 65536 <= width
  /\ drawn = <<>> /\ surface = Blank
  /\ updatesApplied = 0
  /\ frameCount = 1

\* C16: in the step that parses a header with a valid entryCount n, a non-null
\* buffer of capacity >= n is left as it is and decoding goes on; the step drops
\* the client for a failed allocation only when n exceeds the capacity, and then
\* leaves updateBuffer and bufferCapacity exactly as before, so that a frame
\* fitting the old capacity is decoded in the old buffer even after such a drop.
C16_AllocationFailureKeepsBuffer ==
  [][ (GrowthSeen /\ RecvStep) =>
        /\ (WireCount <= bufferCapacity /\ ~updateBuffer.null)
             => /\ UNCHANGED <<updateBuffer, bufferCapacity>>
                /\ pc' = "readBody" /\ count' = WireCount
                /\ connected' = connected /\ err' = err
        /\ pc' = "check"
             => /\ Fatal("AllocationFailure")
                /\ WireCount > bufferCapacity
                /\ UNCHANGED <<updateBuffer, bufferCapacity>>
    ]_vars

\* the second connection's pixel frame was decoded and drawn in the one-entry
\* buffer that a run frame of the first connection had filled, the first
\* connection having been dropped for a failed allocation
C16_Witness ==
  /\ err = "AllocationFailure"
  /\ conns = 2 /\ connected
  /\ pc = "check" /\ ret
  /\ ValidPixelFrameTaken
  /\ WireCount = 1 /\ bufferCapacity = 1
  /\ updateBuffer.mem[1].len # Uninit
  /\ frameCount = 1
  /\ Len(drawn) = 1

\* readExactly returns to its caller
ReadReturns == pc \in Reading /\ RecvStep /\ rd' = <<>>

\* the caller took the `!readExactly(...)` branch
ReadFailed == pc' = "check" /\ err' = "Truncated" /\ ret' = FALSE /\ ~connected'

\* the bytes the call still needs are in the socket, or the peer is gone
ReadCanEnd == Len(rd) + Len(rx) >= Need \/ ~connected

\* what a step inside readExactly, and its return, may do
ReadExactlySteps ==
  /\ (pc \in Reading /\ RecvStep /\ rd' # <<>>)
       => /\ connected /\ connected'
          /\ pc' = pc
          /\ Len(rd) < Len(rd') /\ Len(rd') <= Need
          /\ rd' \o rx' = rd \o rx
          /\ taken' \o rx' = taken \o rx
  /\ ReadReturns
       => /\ Len(rd) = Need \/ ~connected
          /\ ReadFailed <=> Len(rd) < Need
          /\ taken' = taken
          /\ Len(rd) = Need
               => /\ Len(taken) >= Need
                  /\ SubSeq(taken, Len(taken) - Need + 1, Len(taken)) = rd

\* C17: a copying step of readExactly moves the next bytes of the socket, in
\* order, to the end of dst and never beyond len; readExactly returns only with
\* len bytes copied or the transport disconnected, true in the first case and
\* false otherwise, having consumed nothing but what it copied; and every call for
\* which the remaining bytes have arrived, or whose transport has disconnected,
\* returns.
C17_ReadExactly ==
  /\ [][ReadExactlySteps]_vars
  /\ (pc = "readMagic" /\ ReadCanEnd) ~> (pc # "readMagic")
  /\ (pc = "readHeader" /\ ReadCanEnd) ~> (pc # "readHeader")
  /\ \A n \in 0..(TinyWidth * TinyHeight - 1) :
       (pc = "readBody" /\ i = n /\ ReadCanEnd) ~> ~(pc = "readBody" /\ i = n)

\* readExactly holds the first bytes of the second entry of a frame and waits,
\* connected, for the rest that is still on its way; its call for the first
\* entry had returned true, and a call on the earlier connection false
C17_Witness ==
  /\ err = "Truncated"
  /\ conns = 2 /\ connected
  /\ pc = "readBody" /\ i = 1
  /\ 0 < Len(rd) /\ Len(rd) < Need
  /\ rx = <<>> /\ wire # <<>>
  /\ Len(updateBuffer.mem) >= 1
  /\ taken = SubSeq(taken, 1, HEADER_SIZE + PixelEntrySize) \o rd

\* the attached client has disconnected and loop() has not shown it yet: the
\* last test of the client, at the end of the previous iteration, found it
\* connected and drew nothing
DisconnectUnseen == pc = "loop" /\ attached /\ ~connected /\ drawn = <<>>

\* C18: the loop() iteration that observes the disconnection of the attached
\* client shows the waiting screen before a new client is served: the handleClient
\* call that finds the client disconnected takes no new client and leaves the
\* disconnected one for loop()'s test, and that test, finding a disconnected
\* client, blanks the surface and shows the waiting screen.
C18_WaitingScreenOnDisconnect ==
  [][ /\ (DisconnectUnseen /\ RecvStep)
           => attached' /\ ~connected' /\ pending' = pending
      /\ (pc = "check" /\ attached /\ ~connected /\ RecvStep)
           => surface' = Blank /\ drawn' = << <<"showWaitingScreen">> >>
    ]_vars

Applying == pc \in {"applyPixels", "applyRuns"}

\* the pointer, the capacity and the indices the decoder and the compositor use
BufferIndicesSafe ==
  /\ updateBuffer.null <=> bufferCapacity = 0
  /\ Len(updateBuffer.mem) <= bufferCapacity
  /\ pc = "readBody"
       => /\ ~updateBuffer.null
          /\ 0 <= i /\ i < count /\ count <= bufferCapacity
          /\ Len(updateBuffer.mem) >= i
  /\ Applying
       => /\ ~updateBuffer.null
          /\ i = count /\ 0 < count /\ count <= bufferCapacity
          /\ Len(updateBuffer.mem) >= count

\* every field the compositor is about to read holds what this frame's bytes say
FieldsReadAreFresh ==
  Applying =>
    /\ count = WireCount
    /\ isRun <=> WireMagic = MAGIC_RUN
    /\ \A k \in 0..(count - 1) :
         LET e == updateBuffer.mem[k + 1] IN
           /\ BufferHoldsEntry(k)
           /\ e.x # Uninit /\ e.y # Uninit /\ e.color # Uninit
           /\ isRun => e.len # Uninit

\* what the compositor does is decided by this frame's bytes alone
AppliedFromFrameOnly ==
  (Applying /\ RecvStep)
    => drawn' = drawn \o (IF isRun THEN ExpectedRunCalls ELSE ExpectedPixelCalls)

\* C19: in every reachable state updateBuffer is null exactly when bufferCapacity
\* is 0; the decoder writes and the compositor reads only at indices below
\* entryCount, which is at most bufferCapacity; and the fields the compositor
\* reads (x, y, color; len too for runs) were all written from the bytes of the
\* frame being applied, so that what it draws does not depend on anything an
\* earlier frame or connection left in the buffer.
C19_BufferAccessSafe ==
  /\ [](BufferIndicesSafe /\ FieldsReadAreFresh)
  /\ [][AppliedFromFrameOnly]_vars

\* a one-entry pixel frame of the second connection is about to be applied from a
\* buffer in which a run frame of the first connection left a len in that entry
\* and a whole entry behind it
C19_Witness ==
  /\ conns = 2 /\ connected
  /\ pc = "applyPixels"
  /\ count = 1
  /\ Len(updateBuffer.mem) > count
  /\ updateBuffer.mem[1].len # Uninit
  /\ updateBuffer.mem[1].color = WirePixel(0).color
  /\ updateBuffer.mem[2].color # Uninit

Max(S) == CHOOSE m \in S : \A n \in S : n <= m

SurfacePoints == (0..(width - 1)) \X (0..(height - 1))

\* the accepted entries of the frame taken that write the point p
PixelHits(p) ==
  { k \in 0..(WireCount - 1) :
      PixelInBounds(WirePixel(k)) /\ <<WirePixel(k).x, WirePixel(k).y>> = p }

RunHits(p) ==
  { k \in 0..(WireCount - 1) : RunAccepted(WireRun(k)) /\ p \in RunSpan(WireRun(k)) }

\* C20: the apply step leaves every point of the surface with the colour of the
\* last entry of the body, in wire order, that is accepted and covers it, and
\* with its old colour if there is none; a step that counts a frame counts one,
\* the one whose bytes this handleClient call took from the front of the stream,
\* and returns with every later byte still unread in the socket.
C20_WireOrder ==
  [][ /\ (pc = "applyPixels" /\ RecvStep)
           => \A p \in SurfacePoints :
                GetPixel(surface', p[1], p[2]) =
                  IF PixelHits(p) = {} THEN GetPixel(surface, p[1], p[2])
                  ELSE WirePixel(Max(PixelHits(p))).color
      /\ (pc = "applyRuns" /\ RecvStep)
           => \A p \in SurfacePoints :
                GetPixel(surface', p[1], p[2]) =
                  IF RunHits(p) = {} THEN GetPixel(surface, p[1], p[2])
                  ELSE WireRun(Max(RunHits(p))).color
      /\ frameCount' > frameCount
           => /\ frameCount' = frameCount + 1
              /\ lastFrameId' = WireFrameId
              /\ Len(taken) = HEADER_SIZE + EntrySizeTaken * WireCount
              /\ taken' = taken /\ rx' = rx
              /\ pc' = "check" /\ ret' = TRUE
      /\ (pc = "check" /\ RecvStep) => pc' = "loop" /\ StatsKept /\ rx' = rx
    ]_vars

\* a frame naming the same pixel twice left it with the colour of its second
\* entry, and the call returned with all of the next packet's header already
\* buffered and unread
C20_Witness ==
  /\ pc = "check" /\ ret /\ connected
  /\ ValidPixelFrameTaken
  /\ WireCount = 2
  /\ WirePixel(0).x = WirePixel(1).x /\ WirePixel(0).y = WirePixel(1).y
  /\ WirePixel(0).color # WirePixel(1).color
  /\ GetPixel(surface, WirePixel(1).x, WirePixel(1).y) = WirePixel(1).color
  /\ Len(drawn) = 2
  /\ frameCount = 1
  /\ Len(rx) >= HEADER_SIZE

====
